---- MODULE Spec2Model ----
(***************************************************************************)
(* A model of package set: the unlocked base type set[T] (set_nots.go),    *)
(* the thread-safe SetTS[T] that embeds it behind a sync.RWMutex, and the  *)
(* package-level Union.  Threads run one public call at a time; every lock *)
(* operation and every access to a map is one step.                        *)
(***************************************************************************)
EXTENDS Integers, Sequences, FiniteSets, TLC

\* ------------------------------------------------------------------ bounds
NThreads == 3
MaxElem == 3
MaxItems == 2

Threads == 1..NThreads
Elems == 1..MaxElem
Main == CHOOSE t \in Threads : \A u \in Threads : t <= u
ItemSeqs == UNION {[1..n -> Elems] : n \in 0..MaxItems}
Range(q) == {q[i] : i \in 1..Len(q)}

\* ------------------------------------------------------------------ sets
\* "a" and "b" are made by newTS, "s" and "u" by newNonTS.
TSSets == {"a", "b"}
NonTSSets == {"s", "u"}
SetIds == TSSets \cup NonTSSets
IsTS(x) == x \in TSSets

\* The zero value of the element type, returned by Pop with found = false.
ZeroVal == 0

\* The methods *SetTS[T] declares itself; every other method of the
\* interface is promoted from the embedded set[T] and runs on the bare
\* storage, without the lock.
TSMethods == {"Add", "Remove", "Pop", "Has", "Size", "Clear", "IsEqual",
              "IsSubset", "Each", "List", "Copy", "Merge"}
Dispatch(x, op) == IF IsTS(x) /\ op \in TSMethods THEN "TS" ELSE "set"

VARIABLES
    m,      \* m[x]: the keys of the map of set x
    lk,     \* lk[x]: the RWMutex of thread-safe set x
    pc,     \* pc[t]: where thread t stands in its call
    call,   \* call[t]: the public call thread t runs
    loc,    \* loc[t]: the local variables of that call
    live,   \* history: per set, the elements added and not removed since
    seen,   \* history: per set, the contents it had during Main's call
    pops    \* history: the elements Main's Pop calls returned, in order

vars == <<m, lk, pc, call, loc, live, seen, pops>>

\* ------------------------------------------------------------------ RWMutex
\* r[t] counts the read locks thread t holds; w holds the threads that have
\* passed the writers' mutex (a pending or an active writer); h holds the
\* threads that hold the write lock.
LockInit == [r |-> [t \in Threads |-> 0], w |-> {}, h |-> {}]
NoReaders(x) == \A u \in Threads : lk[x].r[u] = 0
\* RLock blocks while a writer is pending or active.
CanRLock(x, t) == lk[x].w = {}
\* Lock first takes the writers' mutex, then waits for the readers to leave.
CanLock(x, t) == lk[x].w = {}
CanAcquire(x, t) == NoReaders(x)
HoldsW(x, t) == t \in lk[x].h
HoldsR(x, t) == lk[x].r[t] > 0

RLocked(x, t) == [lk EXCEPT ![x].r[t] = @ + 1]
RUnlocked(x, t) == [lk EXCEPT ![x].r[t] = @ - 1]
LockPending(x, t) == [lk EXCEPT ![x].w = @ \cup {t}]
LockHeld(x, t) == [lk EXCEPT ![x].h = @ \cup {t}]
Unlocked(x, t) == [lk EXCEPT ![x].w = @ \ {t}, ![x].h = @ \ {t}]

\* ------------------------------------------------------------------ helpers
\* rest: the further sets passed to a package function (sets ...Set[T]).
NoCall == [op |-> "none", recv |-> "a", arg |-> "a", items |-> <<>>, rest |-> <<>>]
\* self, impl: the set whose map the running method calls s.m, and whether
\* that method is SetTS's ("TS") or the embedded set's ("set"); other, obare:
\* the method's argument t, and whether it is the embedded *set[T] of a
\* receiver (IsSuperset passes s itself); tgt, tkind: the set a nested Size,
\* Each or List call runs on and the method its dynamic type selects; cb: the
\* function passed to Each; ret: where the nested call returns.
LocInit == [self |-> "a", impl |-> "set", other |-> "a", obare |-> FALSE,
            tgt |-> "a", tkind |-> "set", cb |-> "none", ret |-> "done",
            i |-> 0, tmp |-> {}, snap |-> {}, item |-> ZeroVal, vis |-> {}, out |-> <<>>,
            acc |-> {}, flag |-> FALSE, n |-> 0, len |-> 0, del |-> {}, before |-> {}]

Goto(t, l) == pc' = [pc EXCEPT ![t] = l]
Keep(t) == loc' = loc
Set(t, r) == loc' = [loc EXCEPT ![t] = r]
At(t, l) == pc[t] = l
Self(t) == loc[t].self
\* The items of the running Add or Remove: Separate passes t.List().
Items(t) == IF call[t].op = "Separate" THEN loc[t].out ELSE call[t].items
Impl(t) == loc[t].impl
Other(t) == loc[t].other
\* The method a call on the argument runs: the argument's dynamic type selects it.
OtherKind(t, op) == IF loc[t].obare THEN "set" ELSE Dispatch(Other(t), op)

\* The contents a set had while Main's call ran are recorded at every store,
\* from the content it had when the call began (BeginWatched).
Tracking(x) == seen[x] # {} /\ pc[Main] \notin {"off", "idle", "done"}
Store(x, v) ==
    /\ m' = [m EXCEPT ![x] = v]
    /\ seen' = IF Tracking(x) THEN [seen EXCEPT ![x] = @ \cup {v}] ELSE seen

\* Has, as a function of the map and the items (set_nots.go, Has).
RECURSIVE HasFrom(_, _, _)
HasFrom(mm, items, i) ==
    IF i > Len(items) THEN TRUE
    ELSE IF items[i] \notin mm THEN FALSE
    ELSE HasFrom(mm, items, i + 1)
Has(mm, items) == IF Len(items) = 0 THEN FALSE ELSE HasFrom(mm, items, 1)
Size(mm) == Cardinality(mm)

\* ------------------------------------------------------------------ steps
\* A step on the thread's locals, a step on a lock, and a step that stores a map.
Local(t, l, r) ==
    /\ Goto(t, l) /\ Set(t, r)
    /\ UNCHANGED <<m, lk, call, live, seen, pops>>
LockStep(t, l, r, newlk) ==
    /\ Goto(t, l) /\ Set(t, r) /\ lk' = newlk
    /\ UNCHANGED <<m, call, live, seen, pops>>
StoreStep(t, l, r, x, v) ==
    /\ Goto(t, l) /\ Set(t, r) /\ Store(x, v)
    /\ UNCHANGED <<lk, call, live, pops>>

\* ------------------------------------------------------------------ calls
\* A thread starts a call: the method the receiver's dynamic type selects.
\* Separate is set.Separate for both variants and starts with t.List(); Union
\* starts with set1.Copy().
Entry(op) ==
    CASE op \in {"Size", "Each", "List"} -> op \o "_enter"
      [] op = "Separate" -> "List_enter"
      [] op \in {"Copy", "Union"} -> "Copy_iter"
      [] OTHER -> op
Begin(t, op, x, arg, items) ==
    /\ pc[t] \in {"idle", "done"}
    /\ call' = [call EXCEPT ![t] = [NoCall EXCEPT !.op = op, !.recv = x, !.arg = arg, !.items = items]]
    /\ loc' = [loc EXCEPT ![t] =
                 [LocInit EXCEPT !.self = x, !.other = arg,
                                 !.impl = IF op \in TSMethods THEN Dispatch(x, op) ELSE "set",
                                 !.tgt = IF op = "Separate" THEN arg ELSE x,
                                 !.tkind = IF op = "Separate" THEN Dispatch(arg, "List")
                                           ELSE Dispatch(x, op),
                                 !.ret = CASE op = "Separate" -> "Remove"
                                           [] op = "Union" -> "Union_each"
                                           [] OTHER -> "done",
                                 !.cb = "collect", !.snap = m[x], !.before = m[x]]]
    /\ pc' = [pc EXCEPT ![t] = Entry(op)]
    /\ UNCHANGED <<m, lk, pops>>

\* ---- Add (SetTS.Add; set.Add when the receiver is not thread safe)
AddEmpty(t) ==
    /\ At(t, "Add") /\ Len(Items(t)) = 0
    /\ Goto(t, "done") /\ Keep(t)
    /\ UNCHANGED <<m, lk, call, live, seen, pops>>

\* Add without s.l.Lock(): what the method promoted from set[T] would do.
AddLock_Skipped(t) ==
    /\ At(t, "Add") /\ Len(Items(t)) # 0 /\ Impl(t) = "TS"
    /\ Local(t, "Add_load", [loc[t] EXCEPT !.i = 1])

AddLock(t) ==
    /\ At(t, "Add") /\ Len(Items(t)) # 0 /\ Impl(t) = "TS"
    /\ CanLock(Self(t), t)
    /\ lk' = LockPending(Self(t), t)
    /\ Goto(t, "Add_acq") /\ Keep(t)
    /\ UNCHANGED <<m, call, live, seen, pops>>

AddAcquire(t) ==
    /\ At(t, "Add_acq") /\ CanAcquire(Self(t), t)
    /\ lk' = LockHeld(Self(t), t)
    /\ Goto(t, "Add_load") /\ Set(t, [loc[t] EXCEPT !.i = 1])
    /\ UNCHANGED <<m, call, live, seen, pops>>

AddNoLock(t) ==
    /\ At(t, "Add") /\ Len(Items(t)) # 0 /\ Impl(t) = "set"
    /\ Goto(t, "Add_load") /\ Set(t, [loc[t] EXCEPT !.i = 1])
    /\ UNCHANGED <<m, lk, call, live, seen, pops>>

\* s.m[item] = keyExists: the map is read, then written.
AddLoad(t) ==
    /\ At(t, "Add_load")
    /\ Goto(t, "Add_store") /\ Set(t, [loc[t] EXCEPT !.tmp = m[Self(t)]])
    /\ UNCHANGED <<m, lk, call, live, seen, pops>>

\* An Add whose loop ends after the first item.
AddNext_FirstOnly(t) == IF Impl(t) = "TS" THEN "Add_unlock" ELSE "done"

AddNext(t) == IF loc[t].i < Len(Items(t)) THEN "Add_load"
              ELSE IF Impl(t) = "TS" THEN "Add_unlock" ELSE "done"

AddStore(t) ==
    /\ At(t, "Add_store")
    /\ Store(Self(t), loc[t].tmp \cup {Items(t)[loc[t].i]})
    /\ Goto(t, AddNext(t))
    /\ Set(t, [loc[t] EXCEPT !.tmp = {}, !.i = IF AddNext(t) = "Add_load" THEN @ + 1 ELSE 0])
    /\ UNCHANGED <<lk, call, live, pops>>

AddUnlock(t) ==
    /\ At(t, "Add_unlock")
    /\ lk' = Unlocked(Self(t), t)
    /\ Goto(t, "done") /\ Keep(t)
    /\ UNCHANGED <<m, call, live, seen, pops>>

\* ---- Remove (SetTS.Remove; set.Remove)
RemoveEmpty(t) ==
    /\ At(t, "Remove") /\ Len(Items(t)) = 0
    /\ Goto(t, "done") /\ Keep(t)
    /\ UNCHANGED <<m, lk, call, live, seen, pops>>

RemoveLock(t) ==
    /\ At(t, "Remove") /\ Len(Items(t)) # 0 /\ Impl(t) = "TS"
    /\ CanLock(Self(t), t)
    /\ lk' = LockPending(Self(t), t)
    /\ Goto(t, "Remove_acq") /\ Keep(t)
    /\ UNCHANGED <<m, call, live, seen, pops>>

RemoveAcquire(t) ==
    /\ At(t, "Remove_acq") /\ CanAcquire(Self(t), t)
    /\ lk' = LockHeld(Self(t), t)
    /\ Goto(t, "Remove_load") /\ Set(t, [loc[t] EXCEPT !.i = 1])
    /\ UNCHANGED <<m, call, live, seen, pops>>

RemoveNoLock(t) ==
    /\ At(t, "Remove") /\ Len(Items(t)) # 0 /\ Impl(t) = "set"
    /\ Goto(t, "Remove_load") /\ Set(t, [loc[t] EXCEPT !.i = 1])
    /\ UNCHANGED <<m, lk, call, live, seen, pops>>

\* delete(s.m, item): the map is read, then written.
RemoveLoad(t) ==
    /\ At(t, "Remove_load")
    /\ Goto(t, "Remove_store") /\ Set(t, [loc[t] EXCEPT !.tmp = m[Self(t)]])
    /\ UNCHANGED <<m, lk, call, live, seen, pops>>

RemoveNext(t) == IF loc[t].i < Len(Items(t)) THEN "Remove_load"
                 ELSE IF Impl(t) = "TS" THEN "Remove_unlock" ELSE "done"

RemoveStore(t) ==
    /\ At(t, "Remove_store")
    /\ Store(Self(t), loc[t].tmp \ {Items(t)[loc[t].i]})
    /\ Goto(t, RemoveNext(t))
    /\ Set(t, [loc[t] EXCEPT !.tmp = {}, !.i = IF RemoveNext(t) = "Remove_load" THEN @ + 1 ELSE 0])
    /\ UNCHANGED <<lk, call, live, pops>>

RemoveUnlock(t) ==
    /\ At(t, "Remove_unlock")
    /\ lk' = Unlocked(Self(t), t)
    /\ Goto(t, "done") /\ Keep(t)
    /\ UNCHANGED <<m, call, live, seen, pops>>

\* ---- Pop (SetTS.Pop; set.Pop when the receiver is not thread safe)
PopRLock(t) ==
    /\ At(t, "Pop") /\ Impl(t) = "TS" /\ CanRLock(Self(t), t)
    /\ LockStep(t, "Pop_range", loc[t], RLocked(Self(t), t))

PopNoLock(t) ==
    /\ At(t, "Pop") /\ Impl(t) = "set"
    /\ Local(t, "Pop_range", loc[t])

\* for item := range s.m: the first key the iteration yields, if there is one.
PopRange(t) ==
    /\ At(t, "Pop_range")
    /\ \E item \in m[Self(t)] :
          Local(t, IF Impl(t) = "TS" THEN "Pop_runlock" ELSE "Pop_load",
                [loc[t] EXCEPT !.item = item])

\* set.Pop returns zeroVal, false at once; SetTS.Pop first unlocks (PopNone).
PopRangeEmpty(t) ==
    /\ At(t, "Pop_range") /\ m[Self(t)] = {}
    /\ Local(t, IF Impl(t) = "TS" THEN "Pop_none" ELSE "done",
             IF Impl(t) = "TS" THEN loc[t] ELSE [loc[t] EXCEPT !.item = ZeroVal, !.flag = FALSE])

PopRUnlock(t) ==
    /\ At(t, "Pop_runlock")
    /\ LockStep(t, "Pop_lock", loc[t], RUnlocked(Self(t), t))

PopLock(t) ==
    /\ At(t, "Pop_lock") /\ CanLock(Self(t), t)
    /\ LockStep(t, "Pop_acq", loc[t], LockPending(Self(t), t))

PopAcquire(t) ==
    /\ At(t, "Pop_acq") /\ CanAcquire(Self(t), t)
    /\ LockStep(t, "Pop_load", loc[t], LockHeld(Self(t), t))

PopLoad(t) ==
    /\ At(t, "Pop_load")
    /\ Local(t, "Pop_store", [loc[t] EXCEPT !.tmp = m[Self(t)]])

\* A Pop that returns the key without deleting it.
PopStore_NoDelete(t) ==
    /\ At(t, "Pop_store")
    /\ StoreStep(t, "Pop_unlock", [loc[t] EXCEPT !.tmp = {}], Self(t), loc[t].tmp)

\* delete(s.m, item); del records the key the delete took out of the map.
PopStore(t) ==
    /\ At(t, "Pop_store")
    /\ StoreStep(t, IF Impl(t) = "TS" THEN "Pop_unlock" ELSE "Pop_ret",
                 [loc[t] EXCEPT !.tmp = {}, !.del = loc[t].tmp \cap {loc[t].item}],
                 Self(t), loc[t].tmp \ {loc[t].item})

\* s.l.Unlock(); return item, true
PopUnlock(t) ==
    /\ At(t, "Pop_unlock")
    /\ Goto(t, "done") /\ Set(t, [loc[t] EXCEPT !.flag = TRUE])
    /\ lk' = Unlocked(Self(t), t)
    /\ pops' = IF t = Main THEN Append(pops, loc[t].item) ELSE pops
    /\ UNCHANGED <<m, call, live, seen>>

\* set.Pop: return item, true
PopReturn(t) ==
    /\ At(t, "Pop_ret")
    /\ Goto(t, "done") /\ Set(t, [loc[t] EXCEPT !.flag = TRUE])
    /\ pops' = IF t = Main THEN Append(pops, loc[t].item) ELSE pops
    /\ UNCHANGED <<m, lk, call, live, seen>>

\* s.l.RUnlock(); return zeroVal, false
PopNone(t) ==
    /\ At(t, "Pop_none")
    /\ LockStep(t, "done", [loc[t] EXCEPT !.item = ZeroVal, !.flag = FALSE],
                RUnlocked(Self(t), t))

\* ---- Clear (SetTS.Clear; set.Clear)
ClearNoLock(t) ==
    /\ At(t, "Clear") /\ Impl(t) = "set"
    /\ Local(t, "Clear_store", loc[t])

ClearLock(t) ==
    /\ At(t, "Clear") /\ Impl(t) = "TS" /\ CanLock(Self(t), t)
    /\ LockStep(t, "Clear_acq", loc[t], LockPending(Self(t), t))

ClearAcquire(t) ==
    /\ At(t, "Clear_acq") /\ CanAcquire(Self(t), t)
    /\ LockStep(t, "Clear_store", loc[t], LockHeld(Self(t), t))

\* s.m = make(map[T]struct{})
ClearStore(t) ==
    /\ At(t, "Clear_store")
    /\ StoreStep(t, IF Impl(t) = "TS" THEN "Clear_unlock" ELSE "done", loc[t], Self(t), {})

ClearUnlock(t) ==
    /\ At(t, "Clear_unlock")
    /\ LockStep(t, "done", loc[t], Unlocked(Self(t), t))

\* ---- Has (SetTS.Has; set.Has when the receiver is not thread safe)
HasEmpty(t) ==
    /\ At(t, "Has") /\ Len(call[t].items) = 0
    /\ Local(t, "done", [loc[t] EXCEPT !.flag = FALSE])

HasRLock(t) ==
    /\ At(t, "Has") /\ Len(call[t].items) # 0 /\ Impl(t) = "TS" /\ CanRLock(Self(t), t)
    /\ LockStep(t, "Has_loop", [loc[t] EXCEPT !.i = 1, !.flag = TRUE], RLocked(Self(t), t))

HasNoLock(t) ==
    /\ At(t, "Has") /\ Len(call[t].items) # 0 /\ Impl(t) = "set"
    /\ Local(t, "Has_loop", [loc[t] EXCEPT !.i = 1, !.flag = TRUE])

HasLeave(t) == IF Impl(t) = "TS" THEN "Has_unlock" ELSE "done"

\* A loop without the break: has is what the last item gave.
HasLoop_NoBreak(t) ==
    /\ At(t, "Has_loop")
    /\ LET has == call[t].items[loc[t].i] \in m[Self(t)]
           more == loc[t].i < Len(call[t].items)
       IN  Local(t, IF more THEN "Has_loop" ELSE HasLeave(t),
                 [loc[t] EXCEPT !.flag = has, !.i = IF more THEN @ + 1 ELSE 0])

\* if _, has = s.m[item]; !has { break }
HasLoop(t) ==
    /\ At(t, "Has_loop")
    /\ LET has == call[t].items[loc[t].i] \in m[Self(t)]
           more == has /\ loc[t].i < Len(call[t].items)
       IN  Local(t, IF more THEN "Has_loop" ELSE HasLeave(t),
                 [loc[t] EXCEPT !.flag = has, !.i = IF more THEN @ + 1 ELSE 0])

HasRUnlock(t) ==
    /\ At(t, "Has_unlock")
    /\ LockStep(t, "done", loc[t], RUnlocked(Self(t), t))

\* ---- Size (SetTS.Size, set.Size), also as called on the argument of IsEqual
SizeRLock(t) ==
    /\ At(t, "Size_enter") /\ loc[t].tkind = "TS" /\ CanRLock(loc[t].tgt, t)
    /\ LockStep(t, "Size_read", loc[t], RLocked(loc[t].tgt, t))

\* l := len(s.m)
SizeRead(t) ==
    /\ At(t, "Size_read")
    /\ Local(t, "Size_unlock", [loc[t] EXCEPT !.n = Cardinality(m[loc[t].tgt])])

SizeRUnlock(t) ==
    /\ At(t, "Size_unlock")
    /\ LockStep(t, loc[t].ret, loc[t], RUnlocked(loc[t].tgt, t))

\* set.Size: return len(s.m)
SizeNoLock(t) ==
    /\ At(t, "Size_enter") /\ loc[t].tkind = "set"
    /\ Local(t, loc[t].ret, [loc[t] EXCEPT !.n = Cardinality(m[loc[t].tgt])])

\* ---- IsEmpty (set.IsEmpty, promoted): return s.Size() == 0, on the bare set
IsEmptyRead(t) ==
    /\ At(t, "IsEmpty")
    /\ Local(t, "done", [loc[t] EXCEPT !.n = Cardinality(m[Self(t)]),
                                       !.flag = (Cardinality(m[Self(t)]) = 0)])

\* ---- Each (SetTS.Each, set.Each), with the function the caller passes
EachRLock(t) ==
    /\ At(t, "Each_enter") /\ loc[t].tkind = "TS" /\ CanRLock(loc[t].tgt, t)
    /\ LockStep(t, "Each_iter", [loc[t] EXCEPT !.vis = {}, !.snap = m[loc[t].tgt]],
                RLocked(loc[t].tgt, t))

EachNoLock(t) ==
    /\ At(t, "Each_enter") /\ loc[t].tkind = "set"
    /\ Local(t, "Each_iter", [loc[t] EXCEPT !.vis = {}, !.snap = m[loc[t].tgt]])

EachLeave(t) == IF loc[t].tkind = "TS" THEN "Each_end" ELSE loc[t].ret

\* for item := range s.m: a key of the map not yet visited.
Unvisited(t) == m[loc[t].tgt] \ loc[t].vis

\* f collects the item and returns true.
EachCollect(t) ==
    /\ At(t, "Each_iter") /\ loc[t].cb = "collect"
    /\ \E item \in Unvisited(t) :
          Local(t, "Each_iter", [loc[t] EXCEPT !.vis = @ \cup {item}, !.out = Append(@, item)])

\* A function that returns true whatever the lookup gave.
EachMember_NoBreak(t) ==
    /\ At(t, "Each_iter") /\ loc[t].cb = "member"
    /\ \E item \in Unvisited(t) :
          Local(t, "Each_iter", [loc[t] EXCEPT !.vis = @ \cup {item}, !.flag = (item \in m[Self(t)])])

\* f of IsEqual and IsSubset: _, equal = s.m[item]; return equal
EachMember(t) ==
    /\ At(t, "Each_iter") /\ loc[t].cb = "member"
    /\ \E item \in Unvisited(t) :
          Local(t, IF item \in m[Self(t)] THEN "Each_iter" ELSE EachLeave(t),
                [loc[t] EXCEPT !.vis = @ \cup {item}, !.flag = (item \in m[Self(t)])])

\* f of Union: u.Add(item), u being the new set only this thread knows.
EachUAdd(t) ==
    /\ At(t, "Each_iter") /\ loc[t].cb = "uadd"
    /\ \E item \in Unvisited(t) :
          Local(t, "Each_iter", [loc[t] EXCEPT !.vis = @ \cup {item}, !.acc = @ \cup {item}])

\* f of Merge: s.m[item] = keyExists
EachMerge(t) ==
    /\ At(t, "Each_iter") /\ loc[t].cb = "merge"
    /\ \E item \in Unvisited(t) :
          Local(t, "Merge_load", [loc[t] EXCEPT !.vis = @ \cup {item}, !.item = item])

\* The iteration ends when no key is left; a key created after the iteration
\* began may be skipped.
EachExhausted(t) ==
    /\ At(t, "Each_iter") /\ Unvisited(t) \cap loc[t].snap = {}
    /\ Local(t, EachLeave(t), loc[t])

EachRUnlock(t) ==
    /\ At(t, "Each_end")
    /\ LockStep(t, loc[t].ret, loc[t], RUnlocked(loc[t].tgt, t))

\* ---- List (SetTS.List, set.List)
\* List without s.l.RLock() and its deferred RUnlock.
ListRLock_Skipped(t) ==
    /\ At(t, "List_enter") /\ loc[t].tkind = "TS"
    /\ Local(t, "List_iter", [loc[t] EXCEPT !.tkind = "set", !.vis = {}, !.out = <<>>,
                                            !.snap = m[loc[t].tgt]])

ListRLock(t) ==
    /\ At(t, "List_enter") /\ loc[t].tkind = "TS" /\ CanRLock(loc[t].tgt, t)
    /\ LockStep(t, "List_iter", [loc[t] EXCEPT !.vis = {}, !.out = <<>>, !.snap = m[loc[t].tgt]],
                RLocked(loc[t].tgt, t))

ListNoLock(t) ==
    /\ At(t, "List_enter") /\ loc[t].tkind = "set"
    /\ Local(t, "List_iter", [loc[t] EXCEPT !.vis = {}, !.out = <<>>, !.snap = m[loc[t].tgt]])

ListLeave(t) == IF loc[t].tkind = "TS" THEN "List_end" ELSE loc[t].ret

\* list = append(list, item)
ListAppend(t) ==
    /\ At(t, "List_iter")
    /\ \E item \in Unvisited(t) :
          Local(t, "List_iter", [loc[t] EXCEPT !.vis = @ \cup {item}, !.out = Append(@, item)])

ListExhausted(t) ==
    /\ At(t, "List_iter") /\ Unvisited(t) \cap loc[t].snap = {}
    /\ Local(t, ListLeave(t), loc[t])

ListRUnlock(t) ==
    /\ At(t, "List_end")
    /\ LockStep(t, loc[t].ret, loc[t], RUnlocked(loc[t].tgt, t))

\* ---- String (set.String, promoted): s.List() twice, on the bare set
StringLen(t) ==
    /\ At(t, "String")
    /\ Local(t, "List_enter", [loc[t] EXCEPT !.tgt = Self(t), !.tkind = "set", !.ret = "String_range"])

StringRange(t) ==
    /\ At(t, "String_range")
    /\ Local(t, "List_enter", [loc[t] EXCEPT !.len = Len(loc[t].out), !.ret = "done"])

\* ---- Copy (SetTS.Copy, set.Copy): for item := range s.m { u.Add(item) }
CopyVisit(t) ==
    /\ At(t, "Copy_iter")
    /\ \E item \in m[Self(t)] \ loc[t].vis :
          Local(t, "Copy_iter", [loc[t] EXCEPT !.vis = @ \cup {item}, !.acc = @ \cup {item}])

\* u := s: a Copy that hands out the receiver itself.
NewSet_Same(x) == x

\* u := newTS[T]() in SetTS.Copy, u := newNonTS[T]() in set.Copy: the set the
\* copy of x is.
NewSet(x) == IF IsTS(x) THEN "b" ELSE "u"

\* return u, u holding the items added to it
CopyReturn(t) ==
    /\ At(t, "Copy_ret")
    /\ StoreStep(t, "done", loc[t], NewSet(Self(t)), loc[t].acc)

CopyExhausted(t) ==
    /\ At(t, "Copy_iter") /\ (m[Self(t)] \ loc[t].vis) \cap loc[t].snap = {}
    /\ Local(t, loc[t].ret, loc[t])

\* ---- Union: u := set1.Copy(); set2.Each(func(item) { u.Add(item) }); return u
UnionEach(t) ==
    /\ At(t, "Union_each")
    /\ Local(t, "Each_enter", [loc[t] EXCEPT !.tgt = Other(t), !.tkind = OtherKind(t, "Each"),
                                             !.cb = "uadd", !.ret = "done"])

\* ---- Merge (SetTS.Merge; set.Merge)
MergeNoLock(t) ==
    /\ At(t, "Merge") /\ Impl(t) = "set"
    /\ Local(t, "Each_enter", [loc[t] EXCEPT !.tgt = Other(t), !.tkind = OtherKind(t, "Each"),
                                             !.cb = "merge", !.ret = "done"])

MergeLock(t) ==
    /\ At(t, "Merge") /\ Impl(t) = "TS" /\ CanLock(Self(t), t)
    /\ LockStep(t, "Merge_acq", loc[t], LockPending(Self(t), t))

MergeAcquire(t) ==
    /\ At(t, "Merge_acq") /\ CanAcquire(Self(t), t)
    /\ LockStep(t, "Each_enter", [loc[t] EXCEPT !.tgt = Other(t), !.tkind = OtherKind(t, "Each"),
                                                !.cb = "merge", !.ret = "Merge_unlock"],
                LockHeld(Self(t), t))

MergeLoad(t) ==
    /\ At(t, "Merge_load")
    /\ Local(t, "Merge_store", [loc[t] EXCEPT !.tmp = m[Self(t)]])

MergeStore(t) ==
    /\ At(t, "Merge_store")
    /\ StoreStep(t, "Each_iter", [loc[t] EXCEPT !.tmp = {}, !.item = ZeroVal],
                 Self(t), loc[t].tmp \cup {loc[t].item})

MergeUnlock(t) ==
    /\ At(t, "Merge_unlock")
    /\ LockStep(t, "done", loc[t], Unlocked(Self(t), t))

\* ---- IsEqual (SetTS.IsEqual, set.IsEqual)
\* t.(RWLockable): *SetTS[T] keeps its mutex in the named field l and has no
\* Lock, Unlock, RLock or RUnlock method, and neither has *SetNonTS[T].
RWLockable(x) == FALSE
\* Whether IsEqual read-locks its argument: SetTS.IsEqual asserts *SetTS[T],
\* set.IsEqual asserts RWLockable.
ArgLocked(t) == IF Impl(t) = "TS" THEN IsTS(Other(t)) /\ ~loc[t].obare ELSE RWLockable(Other(t))
IsEqualLeave(t) ==
    IF ArgLocked(t) THEN "IsEqual_unlock"
    ELSE IF Impl(t) = "TS" THEN "IsEqual_unlock2" ELSE "done"

\* IsEqual with s.l.Lock() in the place of s.l.RLock().
IsEqualRLock_Excl(t) ==
    /\ At(t, "IsEqual") /\ Impl(t) = "TS" /\ CanLock(Self(t), t) /\ CanAcquire(Self(t), t)
    /\ LockStep(t, "IsEqual_conv", loc[t],
                [lk EXCEPT ![Self(t)].w = @ \cup {t}, ![Self(t)].h = @ \cup {t}])

IsEqualRLock(t) ==
    /\ At(t, "IsEqual") /\ Impl(t) = "TS" /\ CanRLock(Self(t), t)
    /\ LockStep(t, "IsEqual_conv", loc[t], RLocked(Self(t), t))

IsEqualNoLock(t) ==
    /\ At(t, "IsEqual") /\ Impl(t) = "set"
    /\ Local(t, "IsEqual_conv", loc[t])

\* if conv, ok := ...; ok { conv.RLock(); defer conv.RUnlock() }
IsEqualConv(t) ==
    /\ At(t, "IsEqual_conv")
    /\ ArgLocked(t) => CanRLock(Other(t), t)
    /\ LockStep(t, "IsEqual_len", loc[t], IF ArgLocked(t) THEN RLocked(Other(t), t) ELSE lk)

\* len(s.m) == t.Size(): the left operand, then the call
IsEqualLen(t) ==
    /\ At(t, "IsEqual_len")
    /\ Local(t, "Size_enter", [loc[t] EXCEPT !.len = Cardinality(m[Self(t)]), !.tgt = Other(t),
                                             !.tkind = OtherKind(t, "Size"), !.ret = "IsEqual_cmp"])

\* An IsEqual that goes on to compare the elements of sets of different sizes.
IsEqualDiffer_Ignored(t) ==
    /\ At(t, "IsEqual_cmp") /\ loc[t].len # loc[t].n
    /\ Local(t, "Each_enter", [loc[t] EXCEPT !.flag = TRUE, !.tgt = Other(t),
                                             !.tkind = OtherKind(t, "Each"), !.cb = "member",
                                             !.ret = IsEqualLeave(t)])

IsEqualDiffer(t) ==
    /\ At(t, "IsEqual_cmp") /\ loc[t].len # loc[t].n
    /\ Local(t, IsEqualLeave(t), [loc[t] EXCEPT !.flag = FALSE])

IsEqualSame(t) ==
    /\ At(t, "IsEqual_cmp") /\ loc[t].len = loc[t].n
    /\ Local(t, "Each_enter", [loc[t] EXCEPT !.flag = TRUE, !.tgt = Other(t),
                                             !.tkind = OtherKind(t, "Each"), !.cb = "member",
                                             !.ret = IsEqualLeave(t)])

IsEqualRUnlockArg(t) ==
    /\ At(t, "IsEqual_unlock")
    /\ LockStep(t, IF Impl(t) = "TS" THEN "IsEqual_unlock2" ELSE "done", loc[t],
                RUnlocked(Other(t), t))

IsEqualRUnlock(t) ==
    /\ At(t, "IsEqual_unlock2")
    /\ LockStep(t, "done", loc[t], RUnlocked(Self(t), t))

\* ---- IsSubset (SetTS.IsSubset, set.IsSubset)
IsSubsetRLock(t) ==
    /\ At(t, "IsSubset") /\ Impl(t) = "TS" /\ CanRLock(Self(t), t)
    /\ LockStep(t, "Each_enter", [loc[t] EXCEPT !.flag = TRUE, !.tgt = Other(t),
                                                !.tkind = OtherKind(t, "Each"), !.cb = "member",
                                                !.ret = "IsSubset_unlock"],
                RLocked(Self(t), t))

IsSubsetNoLock(t) ==
    /\ At(t, "IsSubset") /\ Impl(t) = "set"
    /\ Local(t, "Each_enter", [loc[t] EXCEPT !.flag = TRUE, !.tgt = Other(t),
                                             !.tkind = OtherKind(t, "Each"), !.cb = "member",
                                             !.ret = "done"])

IsSubsetRUnlock(t) ==
    /\ At(t, "IsSubset_unlock")
    /\ LockStep(t, "done", loc[t], RUnlocked(Self(t), t))

\* ---- IsSuperset (set.IsSuperset, promoted): return t.IsSubset(s), s being
\* the embedded *set[T] of the receiver
IsSupersetCall(t) ==
    /\ At(t, "IsSuperset")
    /\ Local(t, "IsSubset", [loc[t] EXCEPT !.self = Other(t), !.impl = Dispatch(Other(t), "IsSubset"),
                                           !.other = Self(t), !.obare = TRUE])

\* ------------------------------------------------------------------ initial states
InitBase ==
    /\ lk = [x \in TSSets |-> LockInit]
    /\ call = [t \in Threads |-> NoCall]
    /\ loc = [t \in Threads |-> LocInit]
    /\ live = [x \in SetIds |-> {}]
    /\ seen = [x \in SetIds |-> {}]
    /\ pops = <<>>

\* ------------------------------------------------------------------ SpecAdd
\* Some of the threads each call a.Add(t) once, t being the thread's own
\* number, on the empty thread-safe set a.
InitAdd ==
    /\ InitBase
    /\ m = [x \in SetIds |-> {}]
    /\ \E P \in SUBSET Threads : pc = [t \in Threads |-> IF t \in P THEN "idle" ELSE "off"]

BeginAdd(t) ==
    /\ pc[t] = "idle"
    /\ Begin(t, "Add", "a", "a", <<t>>)
    /\ UNCHANGED <<live, seen>>

NextAdd ==
    \E t \in Threads :
        \/ BeginAdd(t)
        \/ AddLock(t)
        \/ AddAcquire(t)
        \/ AddLoad(t)
        \/ AddStore(t)
        \/ AddUnlock(t)

SpecAdd == InitAdd /\ [][NextAdd]_vars

\* C1: once every Add call has returned, Size() is the number of calls and
\* Has(x) holds for each element added: no update is lost.
C1_NoLostUpdate ==
    (\A t \in Threads : pc[t] \in {"off", "done"}) =>
        /\ Size(m["a"]) = Cardinality({t \in Threads : pc[t] = "done"})
        /\ \A t \in Threads : pc[t] = "done" => Has(m["a"], <<t>>)

C1_Witness ==
    /\ \A t \in Threads : pc[t] = "done" /\ call[t].op = "Add"
    /\ Size(m["a"]) = NThreads

\* ------------------------------------------------------------------ Spec
\* Main runs one call of any method of the interface on the thread-safe set
\* a, with the thread-safe set b as its argument, while the next thread adds
\* to and removes from a.
Env == CHOOSE t \in Threads : t # Main /\ \A u \in Threads \ {Main} : t <= u
Methods == {"Add", "Remove", "Pop", "Clear", "Merge", "Separate", "Has", "Size", "IsEmpty",
            "Each", "List", "String", "Copy", "IsEqual", "IsSubset", "IsSuperset"}
Variadic == {"Add", "Remove", "Has"}

Init ==
    /\ InitBase
    /\ \E A \in SUBSET Elems, B \in SUBSET Elems :
          m = [x \in SetIds |-> IF x = "a" THEN A ELSE IF x = "b" THEN B ELSE {}]
    /\ pc = [t \in Threads |-> IF t \in {Main, Env} THEN "idle" ELSE "off"]

BeginMethod(t) ==
    /\ t = Main /\ pc[t] = "idle"
    /\ \E op \in Methods :
          \E items \in IF op \in Variadic THEN ItemSeqs ELSE {<<>>} :
              Begin(t, op, "a", "b", items)
    /\ UNCHANGED <<live, seen>>

BeginEnv(t) ==
    /\ t # Main /\ pc[t] = "idle"
    /\ \E op \in {"Add", "Remove"}, e \in Elems : Begin(t, op, "a", "a", <<e>>)
    /\ UNCHANGED <<live, seen>>

Next ==
    \E t \in Threads :
        \/ BeginMethod(t) \/ BeginEnv(t)
        \/ AddEmpty(t) \/ AddLock(t) \/ AddAcquire(t) \/ AddLoad(t) \/ AddStore(t) \/ AddUnlock(t)
        \/ RemoveEmpty(t) \/ RemoveLock(t) \/ RemoveAcquire(t) \/ RemoveNoLock(t)
        \/ RemoveLoad(t) \/ RemoveStore(t) \/ RemoveUnlock(t)
        \/ PopRLock(t) \/ PopRange(t) \/ PopRangeEmpty(t) \/ PopRUnlock(t) \/ PopLock(t)
        \/ PopAcquire(t) \/ PopLoad(t) \/ PopStore(t) \/ PopUnlock(t) \/ PopNone(t)
        \/ ClearLock(t) \/ ClearAcquire(t) \/ ClearStore(t) \/ ClearUnlock(t)
        \/ HasEmpty(t) \/ HasRLock(t) \/ HasLoop(t) \/ HasRUnlock(t)
        \/ SizeRLock(t) \/ SizeRead(t) \/ SizeRUnlock(t)
        \/ IsEmptyRead(t)
        \/ EachRLock(t) \/ EachNoLock(t) \/ EachCollect(t) \/ EachMember(t) \/ EachMerge(t)
        \/ EachExhausted(t) \/ EachRUnlock(t)
        \/ ListRLock(t) \/ ListNoLock(t) \/ ListAppend(t) \/ ListExhausted(t) \/ ListRUnlock(t)
        \/ StringLen(t) \/ StringRange(t)
        \/ CopyVisit(t) \/ CopyExhausted(t)
        \/ MergeLock(t) \/ MergeAcquire(t) \/ MergeLoad(t) \/ MergeStore(t) \/ MergeUnlock(t)
        \/ IsEqualRLock(t) \/ IsEqualConv(t) \/ IsEqualLen(t) \/ IsEqualDiffer(t)
        \/ IsEqualSame(t) \/ IsEqualRUnlockArg(t) \/ IsEqualRUnlock(t)
        \/ IsSubsetRLock(t) \/ IsSubsetRUnlock(t)
        \/ IsSupersetCall(t)

Spec == Init /\ [][Next]_vars

\* The sets whose map the next step of thread t writes, and reads.
StoreLabels == {"Add_store", "Remove_store", "Pop_store", "Clear_store", "Merge_store"}
Writes(t) == IF pc[t] \in StoreLabels THEN {Self(t)} ELSE {}
Reads(t) ==
    CASE pc[t] \in {"Pop_range", "Has_loop", "IsEmpty", "IsEqual_len", "Copy_iter",
                    "Add_load", "Remove_load", "Pop_load", "Merge_load"} -> {Self(t)}
      [] pc[t] \in {"Size_read", "List_iter"} -> {loc[t].tgt}
      [] pc[t] = "Size_enter" /\ loc[t].tkind = "set" -> {loc[t].tgt}
      [] pc[t] = "Each_iter" -> {loc[t].tgt} \cup (IF loc[t].cb = "member" THEN {Self(t)} ELSE {})
      [] OTHER -> {}

\* C3: a thread that is about to write the map of a thread-safe set holds
\* that set's write lock.
C3_WritesHoldWriteLock ==
    \A t \in Threads : \A x \in Writes(t) \cap TSSets : HoldsW(x, t)

\* C4: a thread that is about to read the map of a thread-safe set holds that
\* set's read lock or its write lock.
C4_ReadsHoldLock ==
    \A t \in Threads : \A x \in Reads(t) \cap TSSets : HoldsR(x, t) \/ HoldsW(x, t)

\* ------------------------------------------------------------------ SpecSeq
\* One thread applies a sequence of Add and Remove calls, each with any
\* items, to a new set of either variant.
InitSeq ==
    /\ lk = [x \in TSSets |-> LockInit]
    /\ \E x \in {"a", "s"} : call = [t \in Threads |-> [NoCall EXCEPT !.recv = x]]
    /\ loc = [t \in Threads |-> LocInit]
    /\ live = [x \in SetIds |-> {}]
    /\ seen = [x \in SetIds |-> {}]
    /\ pops = <<>>
    /\ m = [x \in SetIds |-> {}]
    /\ pc = [t \in Threads |-> IF t = Main THEN "idle" ELSE "off"]

\* live follows the calls: the elements added and not removed since.
BeginSeqAdd(t) ==
    /\ t = Main
    /\ \E items \in ItemSeqs :
          /\ Begin(t, "Add", call[t].recv, call[t].recv, items)
          /\ live' = [live EXCEPT ![call[t].recv] = @ \cup Range(items)]
    /\ UNCHANGED seen

BeginSeqRemove(t) ==
    /\ t = Main
    /\ \E items \in ItemSeqs :
          /\ Begin(t, "Remove", call[t].recv, call[t].recv, items)
          /\ live' = [live EXCEPT ![call[t].recv] = @ \ Range(items)]
    /\ UNCHANGED seen

NextSeq ==
    \E t \in Threads :
        \/ BeginSeqAdd(t) \/ BeginSeqRemove(t)
        \/ AddEmpty(t) \/ AddLock(t) \/ AddAcquire(t) \/ AddNoLock(t)
        \/ AddLoad(t) \/ AddStore(t) \/ AddUnlock(t)
        \/ RemoveEmpty(t) \/ RemoveLock(t) \/ RemoveAcquire(t) \/ RemoveNoLock(t)
        \/ RemoveLoad(t) \/ RemoveStore(t) \/ RemoveUnlock(t)

SpecSeq == InitSeq /\ [][NextSeq]_vars

\* C10: between the calls of a sequence of Add and Remove calls, Size() is the
\* number of distinct elements added and not removed since; an Add of present
\* elements, a Remove of absent elements and a call without items leave the
\* content as it was.
C10_SizeCountsLive ==
    pc[Main] \in {"idle", "done"} =>
        LET x == call[Main].recv
            c == call[Main]
        IN  /\ Size(m[x]) = Cardinality(live[x])
            /\ \A e \in Elems : Has(m[x], <<e>>) <=> e \in live[x]
            /\ (c.op = "Add" /\ Range(c.items) \subseteq loc[Main].before) => m[x] = loc[Main].before
            /\ (c.op = "Remove" /\ Range(c.items) \cap loc[Main].before = {}) => m[x] = loc[Main].before
            /\ (c.op \in {"Add", "Remove"} /\ Len(c.items) = 0) => m[x] = loc[Main].before

C10_Witness ==
    /\ pc[Main] = "done"
    /\ call[Main].op = "Remove" /\ call[Main].recv = "a"
    /\ Len(call[Main].items) = MaxItems
    /\ call[Main].items[1] = call[Main].items[MaxItems]
    /\ Size(loc[Main].before) = MaxItems
    /\ Size(m["a"]) = MaxItems - 1

\* ------------------------------------------------------------------ SpecPop
\* Every thread runs one call on the thread-safe set a: Pop, or Remove of
\* one element.
InitPop ==
    /\ InitBase
    /\ \E A \in SUBSET Elems : m = [x \in SetIds |-> IF x = "a" THEN A ELSE {}]
    /\ pc = [t \in Threads |-> "idle"]

BeginPop(t) ==
    /\ pc[t] = "idle"
    /\ Begin(t, "Pop", "a", "a", <<>>)
    /\ UNCHANGED <<live, seen>>

BeginRemove(t) ==
    /\ pc[t] = "idle" /\ t # Main
    /\ \E e \in Elems : Begin(t, "Remove", "a", "a", <<e>>)
    /\ UNCHANGED <<live, seen>>

NextPop ==
    \E t \in Threads :
        \/ BeginPop(t) \/ BeginRemove(t)
        \/ PopRLock(t) \/ PopRange(t) \/ PopRangeEmpty(t) \/ PopRUnlock(t) \/ PopLock(t)
        \/ PopAcquire(t) \/ PopLoad(t) \/ PopStore(t) \/ PopUnlock(t) \/ PopNone(t)
        \/ RemoveLock(t) \/ RemoveAcquire(t) \/ RemoveLoad(t) \/ RemoveStore(t) \/ RemoveUnlock(t)

SpecPop == InitPop /\ [][NextPop]_vars

\* C2: the element a Pop call returns with found = true is one that call's
\* own delete took out of the map.
C2_PopRemovesWhatItReturns ==
    \A t \in Threads :
        (pc[t] = "done" /\ call[t].op = "Pop" /\ loc[t].flag) => loc[t].item \in loc[t].del

\* ------------------------------------------------------------------ SpecPopAll
\* Main calls Pop on the thread-safe set a until Pop reports not found, while
\* the next thread runs Has, Size, List and Each calls on a.
InitPopAll ==
    /\ lk = [x \in TSSets |-> LockInit]
    /\ call = [t \in Threads |-> NoCall]
    /\ loc = [t \in Threads |-> LocInit]
    /\ \E A \in SUBSET Elems :
          /\ m = [x \in SetIds |-> IF x = "a" THEN A ELSE {}]
          /\ live = [x \in SetIds |-> IF x = "a" THEN A ELSE {}]
    /\ seen = [x \in SetIds |-> {}]
    /\ pops = <<>>
    /\ pc = [t \in Threads |-> IF t \in {Main, Env} THEN "idle" ELSE "off"]

BeginPopAgain(t) ==
    /\ t = Main
    /\ pc[t] = "idle" \/ (pc[t] = "done" /\ loc[t].flag)
    /\ Begin(t, "Pop", "a", "a", <<>>)
    /\ UNCHANGED <<live, seen>>

BeginRead(t) ==
    /\ t = Env
    /\ \/ \E e \in Elems : Begin(t, "Has", "a", "a", <<e>>)
       \/ \E op \in {"Size", "List", "Each"} : Begin(t, op, "a", "a", <<>>)
    /\ UNCHANGED <<live, seen>>

NextPopAll ==
    \E t \in Threads :
        \/ BeginPopAgain(t) \/ BeginRead(t)
        \/ PopRLock(t) \/ PopRange(t) \/ PopRangeEmpty(t) \/ PopRUnlock(t) \/ PopLock(t)
        \/ PopAcquire(t) \/ PopLoad(t) \/ PopStore(t) \/ PopUnlock(t) \/ PopNone(t)
        \/ HasRLock(t) \/ HasLoop(t) \/ HasRUnlock(t)
        \/ SizeRLock(t) \/ SizeRead(t) \/ SizeRUnlock(t)
        \/ ListRLock(t) \/ ListAppend(t) \/ ListExhausted(t) \/ ListRUnlock(t)
        \/ EachRLock(t) \/ EachCollect(t) \/ EachExhausted(t) \/ EachRUnlock(t)

SpecPopAll == InitPopAll /\ [][NextPopAll]_vars

\* C7: the Pop calls of one thread return no element twice and only elements
\* the set held, each call takes what it returns out of the set, and the call
\* that reports not found comes when every element has been returned and
\* leaves the set empty.
C7_PopDrains ==
    /\ \A i, j \in 1..Len(pops) : i # j => pops[i] # pops[j]
    /\ Range(pops) \subseteq live["a"]
    /\ pc[Main] \in {"idle", "done"} => m["a"] = live["a"] \ Range(pops)
    /\ (pc[Main] = "done" /\ ~loc[Main].flag) =>
          /\ Range(pops) = live["a"]
          /\ m["a"] = {}
          /\ loc[Main].item = ZeroVal

C7_Witness ==
    /\ pc[Main] = "done" /\ ~loc[Main].flag
    /\ Len(pops) = MaxElem
    /\ pc[Env] = "done" /\ call[Env].op = "List" /\ loc[Env].out # <<>>

\* ------------------------------------------------------------------ watched calls
\* The items of a mutating call of the environment: one element, or two.
EnvItems == {<<e>> : e \in Elems} \cup (Elems \X Elems)

\* Main starts the call whose result is compared with the contents the sets
\* have from now on.
BeginWatched(t, op, x, arg) ==
    /\ t = Main /\ pc[t] = "idle"
    /\ Begin(t, op, x, arg, <<>>)
    /\ seen' = [y \in SetIds |-> {m[y]}]
    /\ UNCHANGED live

\* Another thread starts its Add or Remove call on thread-safe set x.
BeginMutate(t, x) ==
    /\ t = Env /\ pc[t] = "idle"
    /\ \E op \in {"Add", "Remove"}, items \in EnvItems : Begin(t, op, x, x, items)
    /\ UNCHANGED <<live, seen>>

Mutate(t) ==
    \/ AddLock(t) \/ AddAcquire(t) \/ AddLoad(t) \/ AddStore(t) \/ AddUnlock(t)
    \/ RemoveLock(t) \/ RemoveAcquire(t) \/ RemoveLoad(t) \/ RemoveStore(t) \/ RemoveUnlock(t)

\* ------------------------------------------------------------------ SpecList
\* Main runs one List or one Each call on the thread-safe set a while the
\* next thread adds to and removes from a.
InitList ==
    /\ InitBase
    /\ \E A \in SUBSET Elems : m = [x \in SetIds |-> IF x = "a" THEN A ELSE {}]
    /\ pc = [t \in Threads |-> IF t \in {Main, Env} THEN "idle" ELSE "off"]

BeginList(t) == \E op \in {"List", "Each"} : BeginWatched(t, op, "a", "a")
BeginMutateA(t) == BeginMutate(t, "a")

NextList ==
    \E t \in Threads :
        \/ BeginList(t) \/ BeginMutateA(t) \/ Mutate(t)
        \/ ListRLock(t) \/ ListAppend(t) \/ ListExhausted(t) \/ ListRUnlock(t)
        \/ EachRLock(t) \/ EachCollect(t) \/ EachExhausted(t) \/ EachRUnlock(t)

SpecList == InitList /\ [][NextList]_vars

\* C8: the elements a List or an Each call enumerated are, each once, the
\* content the set had at one instant of the call.
C8_ListIsSnapshot ==
    pc[Main] = "done" =>
        /\ Range(loc[Main].out) \in seen["a"]
        /\ Len(loc[Main].out) = Cardinality(Range(loc[Main].out))

C8_Witness ==
    /\ pc[Main] = "done" /\ call[Main].op = "List"
    /\ Len(loc[Main].out) > 1
    /\ Cardinality(seen["a"]) > 2
    /\ Range(loc[Main].out) # loc[Main].before

\* ------------------------------------------------------------------ SpecUnion
\* Main runs Union(a, b) on the thread-safe sets a and b while the next
\* thread adds to and removes from a and b.
InitUnion ==
    /\ InitBase
    /\ \E A \in SUBSET Elems, B \in SUBSET Elems :
          m = [x \in SetIds |-> IF x = "a" THEN A ELSE IF x = "b" THEN B ELSE {}]
    /\ pc = [t \in Threads |-> IF t \in {Main, Env} THEN "idle" ELSE "off"]

BeginUnion(t) == BeginWatched(t, "Union", "a", "b")
BeginMutateAB(t) == \E x \in TSSets : BeginMutate(t, x)

NextUnion ==
    \E t \in Threads :
        \/ BeginUnion(t) \/ BeginMutateAB(t) \/ Mutate(t)
        \/ CopyVisit(t) \/ CopyExhausted(t) \/ UnionEach(t)
        \/ EachRLock(t) \/ EachUAdd(t) \/ EachExhausted(t) \/ EachRUnlock(t)

SpecUnion == InitUnion /\ [][NextUnion]_vars

\* C5: the set Union(a, b) returns is A \cup B for a content A that a had and
\* a content B that b had at an instant of the call.
C5_UnionOfSnapshots ==
    pc[Main] = "done" =>
        \E A \in seen["a"], B \in seen["b"] : loc[Main].acc = A \cup B

\* ------------------------------------------------------------------ SpecEqN
\* Main runs s.IsEqual(a), s not thread safe and a thread safe, while the
\* next thread adds to and removes from a.
InitEqN ==
    /\ InitBase
    /\ \E S \in SUBSET Elems, A \in SUBSET Elems :
          m = [x \in SetIds |-> IF x = "s" THEN S ELSE IF x = "a" THEN A ELSE {}]
    /\ pc = [t \in Threads |-> IF t \in {Main, Env} THEN "idle" ELSE "off"]

BeginIsEqualN(t) == BeginWatched(t, "IsEqual", "s", "a")
BeginMutateOnce(t) == BeginMutate(t, "a")

NextEqN ==
    \E t \in Threads :
        \/ BeginIsEqualN(t) \/ BeginMutateOnce(t) \/ Mutate(t)
        \/ IsEqualNoLock(t) \/ IsEqualConv(t) \/ IsEqualLen(t)
        \/ SizeRLock(t) \/ SizeRead(t) \/ SizeRUnlock(t)
        \/ IsEqualDiffer(t) \/ IsEqualSame(t)
        \/ EachRLock(t) \/ EachMember(t) \/ EachExhausted(t) \/ EachRUnlock(t)

SpecEqN == InitEqN /\ [][NextEqN]_vars

\* C9: s.IsEqual(t), with t's read lock held over t.Size() and t.Each(),
\* returns true only if t had the content of s at an instant of the call.
C9_EqualAtAnInstant ==
    (pc[Main] = "done" /\ loc[Main].flag) => m["s"] \in seen["a"]

\* ------------------------------------------------------------------ SpecEq
\* Main runs a.IsEqual(b) and the next thread b.IsEqual(a), a and b thread
\* safe, and no other thread runs.  Every thread that can take a step
\* eventually does.
InitEq ==
    /\ InitBase
    /\ \E A \in SUBSET Elems, B \in SUBSET Elems :
          m = [x \in SetIds |-> IF x = "a" THEN A ELSE IF x = "b" THEN B ELSE {}]
    /\ pc = [t \in Threads |-> IF t \in {Main, Env} THEN "idle" ELSE "off"]

BeginIsEqual(t) ==
    /\ pc[t] = "idle"
    /\ IF t = Main THEN Begin(t, "IsEqual", "a", "b", <<>>) ELSE Begin(t, "IsEqual", "b", "a", <<>>)
    /\ UNCHANGED <<live, seen>>

StepEq(t) ==
    \/ BeginIsEqual(t)
    \/ IsEqualRLock(t) \/ IsEqualConv(t) \/ IsEqualLen(t)
    \/ SizeRLock(t) \/ SizeRead(t) \/ SizeRUnlock(t)
    \/ IsEqualDiffer(t) \/ IsEqualSame(t)
    \/ EachRLock(t) \/ EachMember(t) \/ EachExhausted(t) \/ EachRUnlock(t)
    \/ IsEqualRUnlockArg(t) \/ IsEqualRUnlock(t)

NextEq == \E t \in Threads : StepEq(t)

SpecEq == InitEq /\ [][NextEq]_vars /\ \A t \in Threads : WF_vars(StepEq(t))

\* C6: a.IsEqual(b) and b.IsEqual(a), run by two threads at once, both return.
C6_BothReturn == <>(pc[Main] = "done" /\ pc[Env] = "done")

C6_Witness ==
    /\ pc[Main] = "done" /\ pc[Env] = "done"
    /\ loc[Main].flag /\ loc[Env].flag
    /\ Size(m["a"]) = MaxElem

\* ------------------------------------------------------------------ SpecHas
\* Main calls Has, with any items, on a set of either variant that holds any
\* content.
InitHas ==
    /\ InitBase
    /\ \E A \in SUBSET Elems, S \in SUBSET Elems :
          m = [x \in SetIds |-> IF x = "a" THEN A ELSE IF x = "s" THEN S ELSE {}]
    /\ pc = [t \in Threads |-> IF t = Main THEN "idle" ELSE "off"]

BeginHas(t) ==
    /\ t = Main /\ pc[t] = "idle"
    /\ \E x \in {"a", "s"}, items \in ItemSeqs : Begin(t, "Has", x, x, items)
    /\ UNCHANGED <<live, seen>>

NextHas ==
    \E t \in Threads :
        \/ BeginHas(t)
        \/ HasEmpty(t) \/ HasRLock(t) \/ HasNoLock(t) \/ HasLoop(t) \/ HasRUnlock(t)

SpecHas == InitHas /\ [][NextHas]_vars

\* C11: Has without items returns false; Has with items returns true exactly
\* when every item is a member of the set, for both variants.
C11_HasAllMembers ==
    (pc[Main] = "done" /\ call[Main].op = "Has") =>
        LET c == call[Main]
        IN  loc[Main].flag <=> (Len(c.items) > 0 /\ \A i \in 1..Len(c.items) : c.items[i] \in m[c.recv])

C11_Witness ==
    /\ pc[Main] = "done" /\ call[Main].op = "Has" /\ call[Main].recv = "s"
    /\ Len(call[Main].items) = MaxItems
    /\ call[Main].items[1] \notin m["s"] /\ call[Main].items[MaxItems] \in m["s"]
    /\ ~loc[Main].flag

\* ------------------------------------------------------------------ SpecCopy
\* Main copies a set x of either variant, c := x.Copy(), compares x and c
\* both ways, and then runs one mutating call on x or on c.
Mutators == {"Add", "Remove", "Pop", "Clear", "Merge", "Separate"}

InitCopy ==
    /\ lk = [x \in TSSets |-> LockInit]
    /\ loc = [t \in Threads |-> LocInit]
    /\ \E A \in SUBSET Elems, S \in SUBSET Elems, x \in {"a", "s"} :
          /\ m = [y \in SetIds |-> IF y = "a" THEN A ELSE IF y = "s" THEN S ELSE {}]
          /\ live = [y \in SetIds |-> IF y = x THEN m[y] ELSE {}]
          /\ call = [t \in Threads |-> [NoCall EXCEPT !.recv = x]]
    /\ seen = [x \in SetIds |-> {}]
    /\ pops = <<>>
    /\ pc = [t \in Threads |-> IF t = Main THEN "idle" ELSE "off"]

BeginCopy(t) ==
    /\ t = Main /\ pc[t] = "idle"
    /\ LET x == call[t].recv
       IN  /\ call' = [call EXCEPT ![t] = [NoCall EXCEPT !.op = "Copy", !.recv = x, !.arg = x]]
           /\ loc' = [loc EXCEPT ![t] = [LocInit EXCEPT !.self = x, !.other = x,
                                                        !.impl = Dispatch(x, "Copy"),
                                                        !.ret = "Copy_ret", !.snap = m[x],
                                                        !.before = m[x]]]
    /\ pc' = [pc EXCEPT ![t] = "Copy_iter"]
    /\ UNCHANGED <<m, lk, live, seen, pops>>

\* x.IsEqual(c) or c.IsEqual(x), before any mutation.
BeginCompare(t) ==
    /\ t = Main /\ pc[t] = "done" /\ call[t].op \in {"Copy", "IsEqual"}
    /\ LET r == call[t].recv
           o == call[t].arg
       IN  \/ Begin(t, "IsEqual", r, IF o = r THEN NewSet(r) ELSE o, <<>>)
           \/ Begin(t, "IsEqual", IF o = r THEN NewSet(r) ELSE o, r, <<>>)
    /\ UNCHANGED <<live, seen>>

\* One mutating call on x or on c; the argument of Merge and Separate is the
\* other of the two, or a third set.
BeginMutator(t) ==
    /\ t = Main /\ pc[t] = "done" /\ call[t].op = "IsEqual"
    /\ \E op \in Mutators, r \in {call[t].recv, call[t].arg} :
          \E items \in IF op \in Variadic THEN {<<>>} \cup EnvItems ELSE {<<>>} :
              \E arg \in IF op \in {"Merge", "Separate"}
                          THEN {call[t].recv, call[t].arg, IF IsTS(r) THEN "s" ELSE "a"} \ {r}
                          ELSE {r} :
                  Begin(t, op, r, arg, items)
    /\ UNCHANGED <<live, seen>>

NextCopy ==
    \E t \in Threads :
        \/ BeginCopy(t) \/ CopyVisit(t) \/ CopyExhausted(t) \/ CopyReturn(t)
        \/ BeginCompare(t)
        \/ IsEqualRLock(t) \/ IsEqualNoLock(t) \/ IsEqualConv(t) \/ IsEqualLen(t)
        \/ SizeRLock(t) \/ SizeRead(t) \/ SizeRUnlock(t) \/ SizeNoLock(t)
        \/ IsEqualSame(t)
        \/ EachRLock(t) \/ EachNoLock(t) \/ EachMember(t) \/ EachExhausted(t) \/ EachRUnlock(t)
        \/ IsEqualRUnlockArg(t) \/ IsEqualRUnlock(t)
        \/ BeginMutator(t)
        \/ AddEmpty(t) \/ AddLock(t) \/ AddAcquire(t) \/ AddNoLock(t)
        \/ AddLoad(t) \/ AddStore(t) \/ AddUnlock(t)
        \/ RemoveEmpty(t) \/ RemoveLock(t) \/ RemoveAcquire(t) \/ RemoveNoLock(t)
        \/ RemoveLoad(t) \/ RemoveStore(t) \/ RemoveUnlock(t)
        \/ PopRLock(t) \/ PopNoLock(t) \/ PopRange(t) \/ PopRangeEmpty(t) \/ PopRUnlock(t)
        \/ PopLock(t) \/ PopAcquire(t) \/ PopLoad(t) \/ PopStore(t) \/ PopUnlock(t)
        \/ PopReturn(t) \/ PopNone(t)
        \/ ClearLock(t) \/ ClearNoLock(t) \/ ClearAcquire(t) \/ ClearStore(t) \/ ClearUnlock(t)
        \/ MergeLock(t) \/ MergeNoLock(t) \/ MergeAcquire(t) \/ EachMerge(t)
        \/ MergeLoad(t) \/ MergeStore(t) \/ MergeUnlock(t)
        \/ ListRLock(t) \/ ListNoLock(t) \/ ListAppend(t) \/ ListExhausted(t) \/ ListRUnlock(t)

SpecCopy == InitCopy /\ [][NextCopy]_vars

\* C12: c := x.Copy() holds the content of x, x.IsEqual(c) and c.IsEqual(x)
\* return true, and a later Add, Remove, Pop, Clear, Merge or Separate on one
\* of x and c leaves the content of the other as it was.
C12_CopyIsEqualAndApart ==
    \A x \in {"a", "s"} :
        LET c == NewSet(x)
            o == call[Main].op
            r == call[Main].recv
        IN  /\ (o = "Copy" /\ r = x /\ pc[Main] = "done") => (m[c] = live[x] /\ m[x] = live[x])
            /\ (o = "IsEqual" /\ r \in {x, c} /\ pc[Main] = "done") => loc[Main].flag
            /\ (o \in Mutators /\ r = x) => m[c] = live[x]
            /\ (o \in Mutators /\ r = c) => m[x] = live[x]

C12_Witness ==
    /\ pc[Main] = "done" /\ call[Main].op = "Pop" /\ call[Main].recv = "b"
    /\ loc[Main].flag
    /\ Size(m["a"]) = MaxElem /\ Size(m["b"]) = MaxElem - 1

\* ------------------------------------------------------------------ package functions
\* Union, Difference, Intersection and SymmetricDifference as one thread runs
\* them on sets no other thread touches: functions of the maps of their
\* arguments and of the order ord in which a range over a map yields its keys.
Orders == {o \in [1..MaxElem -> Elems] : \A i, j \in 1..MaxElem : i # j => o[i] # o[j]}

\* for item := range s.m
Keys(mm, ord) == SelectSeq(ord, LAMBDA e : e \in mm)

\* set.Add / SetTS.Add: for _, item := range items { s.m[item] = keyExists }
RECURSIVE AddAll(_, _)
AddAll(mm, items) ==
    IF items = <<>> THEN mm ELSE AddAll(mm \cup {Head(items)}, Tail(items))

\* set.Remove / SetTS.Remove: for _, item := range items { delete(s.m, item) }
RECURSIVE RemoveAll(_, _)
RemoveAll(mm, items) ==
    IF items = <<>> THEN mm ELSE RemoveAll(mm \ {Head(items)}, Tail(items))

\* Copy: u := new; for item := range s.m { u.Add(item) }
Copy(mm, ord) == AddAll({}, Keys(mm, ord))

\* List: list = append(list, item) for every key
List(mm, ord) == Keys(mm, ord)

\* set.Separate: s.Remove(t.List()...)
Separate(mm, tt, ord) == RemoveAll(mm, List(tt, ord))

\* t.Each(func(item) { u.Add(item); return true })
EachAdd(u, tt, ord) == AddAll(u, Keys(tt, ord))

\* IsEqual: the sizes agree and Each finds every key of t in s
IsEqual(mm, tt) == Size(mm) = Size(tt) /\ \A item \in tt : item \in mm

\* A Union that leaves out set2.
Union_FirstOnly(m1, m2, rest, ord) ==
    LET RECURSIVE Sets(_, _)
        Sets(u, i) == IF i > Len(rest) THEN u ELSE Sets(EachAdd(u, rest[i], ord), i + 1)
    IN  Sets(Copy(m1, ord), 1)

Union(m1, m2, rest, ord) ==
    LET RECURSIVE Sets(_, _)
        Sets(u, i) == IF i > Len(rest) THEN u ELSE Sets(EachAdd(u, rest[i], ord), i + 1)
    IN  Sets(EachAdd(Copy(m1, ord), m2, ord), 1)

\* A Difference that separates set2 only.
Difference_SecondOnly(m1, m2, rest, ord) == Separate(Copy(m1, ord), m2, ord)

Difference(m1, m2, rest, ord) ==
    LET RECURSIVE Sets(_, _)
        Sets(s, i) == IF i > Len(rest) THEN s ELSE Sets(Separate(s, rest[i], ord), i + 1)
    IN  Sets(Separate(Copy(m1, ord), m2, ord), 1)

\* An Intersection that tests set1 and set2 only.
Intersection_TwoOnly(m1, m2, rest, ord) ==
    LET all == Union(m1, m2, rest, ord)
        f(result, item) ==
            IF ~Has(m1, <<item>>) \/ ~Has(m2, <<item>>) THEN RemoveAll(result, <<item>>)
            ELSE result
        RECURSIVE Each(_, _)
        Each(result, items) ==
            IF items = <<>> THEN result ELSE Each(f(result, Head(items)), Tail(items))
    IN  Each(Union(m1, m2, rest, ord), Keys(all, ord))

Intersection(m1, m2, rest, ord) ==
    LET all == Union(m1, m2, rest, ord)
        RECURSIVE Sets(_, _, _)
        Sets(result, item, i) ==
            IF i > Len(rest) THEN result
            ELSE Sets(IF ~Has(rest[i], <<item>>) THEN RemoveAll(result, <<item>>) ELSE result,
                      item, i + 1)
        f(result, item) ==
            Sets(IF ~Has(m1, <<item>>) \/ ~Has(m2, <<item>>) THEN RemoveAll(result, <<item>>)
                 ELSE result, item, 1)
        RECURSIVE Each(_, _)
        Each(result, items) ==
            IF items = <<>> THEN result ELSE Each(f(result, Head(items)), Tail(items))
    IN  Each(Union(m1, m2, rest, ord), Keys(all, ord))

\* A SymmetricDifference that unites u with itself.
SymmetricDifference_OneSide(s, t, ord) ==
    LET u == Difference(s, t, <<>>, ord)
    IN  Union(u, u, <<>>, ord)

SymmetricDifference(s, t, ord) ==
    LET u == Difference(s, t, <<>>, ord)
        v == Difference(t, s, <<>>, ord)
    IN  Union(u, v, <<>>, ord)

\* ------------------------------------------------------------------ SpecAlg
\* Main calls one package function on sets of any variant and content, with
\* no, one or two further sets; a set that is not an argument is empty.
ArgLists ==
    {<<x, y, <<>>>> : x \in {"a", "b", "s"}, y \in {"a", "b", "s"}}
        \cup {<<"a", "b", <<"s">>>>, <<"a", "b", <<"a">>>>, <<"s", "s", <<"a">>>>,
              <<"s", "a", <<"b", "a">>>>}

InitAlg ==
    /\ InitBase
    /\ \E A \in SUBSET Elems, B \in SUBSET Elems, S \in SUBSET Elems :
          m = [x \in SetIds |-> CASE x = "a" -> A [] x = "b" -> B [] x = "s" -> S [] OTHER -> {}]
    /\ pc = [t \in Threads |-> IF t = Main THEN "idle" ELSE "off"]

Passed(a) == {a[1], a[2]} \cup Range(a[3])
Contents(rest) == [i \in 1..Len(rest) |-> m[rest[i]]]

\* The call with arguments a returns the new set: acc is its content.
Return(t, op, a, result) ==
    /\ call' = [call EXCEPT ![t] = [NoCall EXCEPT !.op = op, !.recv = a[1], !.arg = a[2],
                                                  !.rest = a[3]]]
    /\ loc' = [loc EXCEPT ![t] = [LocInit EXCEPT !.self = a[1], !.other = a[2], !.acc = result]]
    /\ pc' = [pc EXCEPT ![t] = "done"]
    /\ UNCHANGED <<m, lk, live, seen, pops>>

Callable(t, a) ==
    /\ t = Main /\ pc[t] = "idle"
    /\ \A z \in SetIds \ Passed(a) : m[z] = {}

CallUnion(t) ==
    \E a \in ArgLists :
        /\ Callable(t, a)
        /\ \E ord \in Orders :
              Return(t, "Union", a, Union(m[a[1]], m[a[2]], Contents(a[3]), ord))

CallDifference(t) ==
    \E a \in ArgLists :
        /\ Callable(t, a)
        /\ \E ord \in Orders :
              Return(t, "Difference", a, Difference(m[a[1]], m[a[2]], Contents(a[3]), ord))

CallIntersection(t) ==
    \E a \in ArgLists :
        /\ Callable(t, a)
        /\ \E ord \in Orders :
              Return(t, "Intersection", a, Intersection(m[a[1]], m[a[2]], Contents(a[3]), ord))

CallSymmetricDifference(t) ==
    \E a \in ArgLists :
        /\ Callable(t, a) /\ a[3] = <<>>
        /\ \E ord \in Orders :
              Return(t, "SymmetricDifference", a, SymmetricDifference(m[a[1]], m[a[2]], ord))

NextAlg ==
    \E t \in Threads :
        \/ CallUnion(t) \/ CallDifference(t) \/ CallIntersection(t)
        \/ CallSymmetricDifference(t)

SpecAlg == InitAlg /\ [][NextAlg]_vars

\* The call Main has returned from, and the contents of its arguments.
Returned(op) == pc[Main] = "done" /\ call[Main].op = op
ArgA == m[call[Main].recv]
ArgB == m[call[Main].arg]
ArgRest == {m[call[Main].rest[i]] : i \in 1..Len(call[Main].rest)}
Result == loc[Main].acc

\* C13: Intersection(a, b, rest...) holds exactly the elements that are in
\* every argument; Intersection(a, a) is equal to a.
C13_IntersectionOfAll ==
    Returned("Intersection") =>
        /\ Result = {e \in Elems : e \in ArgA /\ e \in ArgB /\ \A R \in ArgRest : e \in R}
        /\ (call[Main].recv = call[Main].arg /\ call[Main].rest = <<>>) =>
              (IsEqual(Result, ArgA) /\ IsEqual(ArgA, Result))

C13_Witness ==
    /\ Returned("Intersection") /\ Len(call[Main].rest) = 1
    /\ Size(Result) = 1
    /\ Size(ArgA \cap ArgB) = MaxElem - 1

\* C14: Union(a, b, rest...) holds exactly the elements that are in at least
\* one argument, and Size(Union(a, b)) = Size(a) + Size(b) - Size(Intersection(a, b)).
C14_UnionOfAll ==
    Returned("Union") =>
        /\ Result = {e \in Elems : e \in ArgA \/ e \in ArgB \/ \E R \in ArgRest : e \in R}
        /\ call[Main].rest = <<>> =>
              \A ord \in Orders :
                  Size(Result) = Size(ArgA) + Size(ArgB) - Size(Intersection(ArgA, ArgB, <<>>, ord))

C14_Witness ==
    /\ Returned("Union") /\ call[Main].rest = <<>>
    /\ Size(Result) = MaxElem
    /\ Size(ArgA) = MaxElem - 1 /\ Size(ArgB) = MaxElem - 1

\* C15: Difference(a, b, rest...) holds exactly the elements of a that are in
\* no other argument; Difference(a, b) holds no element of b, and
\* Union(Difference(a, b), Intersection(a, b)) is equal to a.
C15_DifferenceOfAll ==
    Returned("Difference") =>
        /\ Result = {e \in ArgA : e \notin ArgB /\ \A R \in ArgRest : e \notin R}
        /\ call[Main].rest = <<>> =>
              /\ \A e \in ArgB : ~Has(Result, <<e>>)
              /\ \A ord \in Orders :
                    IsEqual(Union(Result, Intersection(ArgA, ArgB, <<>>, ord), <<>>, ord), ArgA)

C15_Witness ==
    /\ Returned("Difference") /\ Len(call[Main].rest) = 2
    /\ Size(ArgA) = MaxElem /\ Size(Result) = 1
    /\ ArgB \cap Result = {} /\ ArgB # {}

\* C16: SymmetricDifference(a, b) holds exactly the elements that are in one
\* of a and b and not in the other, is Union(Difference(a, b), Difference(b, a)),
\* and is empty exactly when a.IsEqual(b).
C16_SymmetricDifference ==
    Returned("SymmetricDifference") =>
        /\ Result = {e \in Elems : (e \in ArgA) # (e \in ArgB)}
        /\ \A ord \in Orders :
              Result = Union(Difference(ArgA, ArgB, <<>>, ord), Difference(ArgB, ArgA, <<>>, ord),
                             <<>>, ord)
        /\ (Size(Result) = 0) <=> IsEqual(ArgA, ArgB)

C16_Witness ==
    /\ Returned("SymmetricDifference")
    /\ Size(Result) = MaxElem - 1
    /\ ArgA \ ArgB # {} /\ ArgB \ ArgA # {} /\ ArgA \cap ArgB # {}

\* ------------------------------------------------------------------ SpecRel
\* Main calls x.IsEqual(y), x.IsSubset(y) or x.IsSuperset(y) on sets of any
\* variant and content, x and y being two sets or the same set, while no
\* other thread runs; a set that is not passed is empty.
InitRel ==
    /\ InitBase
    /\ \E A \in SUBSET Elems, B \in SUBSET Elems, S \in SUBSET Elems :
          m = [x \in SetIds |-> CASE x = "a" -> A [] x = "b" -> B [] x = "s" -> S [] OTHER -> {}]
    /\ pc = [t \in Threads |-> IF t = Main THEN "idle" ELSE "off"]

BeginRel(t) ==
    /\ t = Main /\ pc[t] = "idle"
    /\ \E op \in {"IsEqual", "IsSubset", "IsSuperset"}, x \in {"a", "s"}, y \in {"a", "b", "s", "u"} :
          /\ \A z \in SetIds \ {x, y} : m[z] = {}
          /\ Begin(t, op, x, y, <<>>)
    /\ UNCHANGED <<live, seen>>

NextRel ==
    \E t \in Threads :
        \/ BeginRel(t)
        \/ IsEqualRLock(t) \/ IsEqualNoLock(t) \/ IsEqualConv(t) \/ IsEqualLen(t)
        \/ SizeRLock(t) \/ SizeRead(t) \/ SizeRUnlock(t) \/ SizeNoLock(t)
        \/ IsEqualDiffer(t) \/ IsEqualSame(t)
        \/ EachRLock(t) \/ EachNoLock(t) \/ EachMember(t) \/ EachExhausted(t) \/ EachRUnlock(t)
        \/ IsEqualRUnlockArg(t) \/ IsEqualRUnlock(t)
        \/ IsSubsetRLock(t) \/ IsSubsetNoLock(t) \/ IsSubsetRUnlock(t)
        \/ IsSupersetCall(t)

SpecRel == InitRel /\ [][NextRel]_vars

\* C17: a.IsEqual(b) returns true exactly when a and b hold the same
\* elements (so a.IsEqual(a) is true, and a.IsEqual(b) is what b.IsEqual(a) is).
C17_IsEqualSameElements ==
    Returned("IsEqual") =>
        /\ loc[Main].flag <=> (\A e \in Elems : e \in ArgA <=> e \in ArgB)
        /\ call[Main].recv = call[Main].arg => loc[Main].flag
        /\ loc[Main].flag <=> IsEqual(ArgB, ArgA)

C17_Witness ==
    /\ Returned("IsEqual") /\ call[Main].recv = "s" /\ call[Main].arg = "a"
    /\ ~loc[Main].flag
    /\ Size(ArgA) = Size(ArgB) /\ Size(ArgA) = MaxElem - 1

\* C18: a.IsSubset(b) returns true exactly when every element of b is in a,
\* and a.IsSuperset(b) exactly when every element of a is in b.
C18_IsSubsetIsSuperset ==
    /\ Returned("IsSubset") => (loc[Main].flag <=> \A e \in ArgB : e \in ArgA)
    /\ Returned("IsSuperset") => (loc[Main].flag <=> \A e \in ArgA : e \in ArgB)

C18_Witness ==
    /\ Returned("IsSuperset") /\ call[Main].recv = "a" /\ call[Main].arg = "s"
    /\ loc[Main].flag
    /\ Size(ArgA) = 1 /\ Size(ArgB) = MaxElem

\* ------------------------------------------------------------------ SpecMerge
\* Main runs a.Merge(a) or a.Merge(b) alone, or a.Merge(b) while the next
\* thread runs b.Merge(a); a and b are thread safe.  Every thread that can
\* take a step eventually does.
InitMerge ==
    /\ InitBase
    /\ \E A \in SUBSET Elems, B \in SUBSET Elems :
          m = [x \in SetIds |-> IF x = "a" THEN A ELSE IF x = "b" THEN B ELSE {}]
    /\ \E e \in {"idle", "off"} :
          pc = [t \in Threads |-> IF t = Main THEN "idle" ELSE IF t = Env THEN e ELSE "off"]

BeginMerge(t) ==
    /\ pc[t] = "idle"
    /\ \/ t = Main /\ Begin(t, "Merge", "a", "b", <<>>)
       \/ t = Main /\ pc[Env] = "off" /\ Begin(t, "Merge", "a", "a", <<>>)
       \/ t = Env /\ Begin(t, "Merge", "b", "a", <<>>)
    /\ UNCHANGED <<live, seen>>

StepMerge(t) ==
    \/ BeginMerge(t)
    \/ MergeLock(t) \/ MergeAcquire(t)
    \/ EachRLock(t) \/ EachMerge(t) \/ MergeLoad(t) \/ MergeStore(t)
    \/ EachExhausted(t) \/ EachRUnlock(t)
    \/ MergeUnlock(t)

NextMerge == \E t \in Threads : StepMerge(t)

SpecMerge == InitMerge /\ [][NextMerge]_vars /\ \A t \in Threads : WF_vars(StepMerge(t))

\* C19: every Merge call on thread-safe sets returns: a.Merge(a) does, and so
\* do a.Merge(b) and b.Merge(a) run by two threads at once.
C19_MergeReturns == <>(\A t \in Threads : pc[t] \in {"off", "done"})

\* ------------------------------------------------------------------ SpecEqW
\* Main runs a.IsEqual(x) or a.IsSubset(x), x being b or a itself, while the
\* next thread runs one Add or Remove call on a or b.  Every thread that can
\* take a step eventually does.
InitEqW ==
    /\ InitBase
    /\ \E A \in SUBSET Elems, B \in SUBSET Elems :
          m = [x \in SetIds |-> IF x = "a" THEN A ELSE IF x = "b" THEN B ELSE {}]
    /\ pc = [t \in Threads |-> IF t \in {Main, Env} THEN "idle" ELSE "off"]

BeginRead2(t) ==
    /\ t = Main /\ pc[t] = "idle"
    /\ \E op \in {"IsEqual", "IsSubset"}, x \in TSSets : Begin(t, op, "a", x, <<>>)
    /\ UNCHANGED <<live, seen>>

BeginWrite(t) ==
    /\ t = Env /\ pc[t] = "idle"
    /\ \E op \in {"Add", "Remove"}, x \in TSSets, e \in Elems : Begin(t, op, x, x, <<e>>)
    /\ UNCHANGED <<live, seen>>

StepEqW(t) ==
    \/ BeginRead2(t) \/ BeginWrite(t) \/ Mutate(t)
    \/ IsEqualRLock(t) \/ IsEqualConv(t) \/ IsEqualLen(t)
    \/ SizeRLock(t) \/ SizeRead(t) \/ SizeRUnlock(t)
    \/ IsEqualDiffer(t) \/ IsEqualSame(t)
    \/ EachRLock(t) \/ EachMember(t) \/ EachExhausted(t) \/ EachRUnlock(t)
    \/ IsEqualRUnlockArg(t) \/ IsEqualRUnlock(t)
    \/ IsSubsetRLock(t) \/ IsSubsetRUnlock(t)

NextEqW == \E t \in Threads : StepEqW(t)

SpecEqW == InitEqW /\ [][NextEqW]_vars /\ \A t \in Threads : WF_vars(StepEqW(t))

\* C20: an a.IsEqual(b) or a.IsSubset(b) call on thread-safe sets, b being a
\* itself or not, returns while another thread calls Add or Remove on a or b.
C20_ReadReturns == <>(pc[Main] = "done")

====
